---- MODULE Spec2Model ----
(***************************************************************************)
(* Model of the research-orchestration pipeline of noboox:                 *)
(*   - the process-wide search rate limiter (checkRateLimit),              *)
(*   - the research endpoint POST in quick and deep mode                   *)
(*     (searchWithPriority, source formatting, generation, rendering),     *)
(*   - the edit endpoint POST (extractSources, processEdit) and its        *)
(*     variant whose LLM call goes through retryWithTimeout.               *)
(* Source: src/src/app/api/research/route.ts, the search client,           *)
(* src/src/app/api/cipher/route.ts and src/unnamed/part_006.               *)
(***************************************************************************)
EXTENDS Integers, Sequences, FiniteSets, TLC

(***************************************************************************)
(* Program constants                                                       *)
(***************************************************************************)
RATE_LIMIT_WINDOW == 60000
MAX_REQUESTS_PER_WINDOW == 5
MIN_DELAY_BETWEEN_REQUESTS == 3000

(***************************************************************************)
(* Bounds of the model                                                     *)
(***************************************************************************)
\* Date.now() at the first step; lastRequestTime starts at 0, far in the past
StartTime == 100000
\* clock granularity of the model, below the minimum delay
TickMs == 1500
\* the limiter is observed for this long
MaxElapsed == 15000
\* concurrent callers of the limiter in SpecRL
NumCallers == 2
\* calls of checkRateLimit observed in SpecRL
MaxCalls == 6

VARIABLES
  now,                \* Date.now()
  requestTimestamps,  \* module-level let requestTimestamps: number[]
  lastRequestTime,    \* module-level let lastRequestTime
  callers,            \* SpecRL: each caller's position around its await checkRateLimit()
  calls,              \* history: the two most recent checkRateLimit calls
  permits,            \* history: the times at which callers were let through
  pc,                 \* POST: position of the request handler
  isDeepResearch,     \* POST: the request's isDeepResearch flag
  query,              \* POST: messages[0].content
  tier,               \* searchWithPriority: the tier being issued (1 academic, 2 general, 3 fallback)
  allResults,         \* searchWithPriority: let allResults
  searchResults,      \* POST: const searchResults, what searchWithPriority returned
  sources,            \* POST: let sources
  pending,            \* POST: academicCitations not yet looked up, in iteration order
  wake,               \* time at which the pending setTimeout of the handler fires
  content,            \* POST: the generated text
  chunk,              \* generateDeepResearch: [i, attempts, allContent, previousContent, prompts]
  response,           \* the NextResponse.json the handler returned
  log,                \* history of the request: its acquires and searches
  lastCall,           \* history: the latest LLM call, its prompt and its outcome
  llmCalls,           \* history: the number of LLM calls of the request
  epc,                \* edit endpoint POST: position of the handler
  userRequest,        \* edit endpoint POST: the request's request field
  currentContent,     \* edit endpoint POST: the request's currentContent field
  existingSources,    \* edit endpoint POST: const existingSources
  editResponse,       \* the NextResponse.json the edit endpoint returned
  retry               \* retryWithTimeout: the running call, its timer and its controller

limvars == <<now, requestTimestamps, lastRequestTime>>
rlonly == <<callers, calls, permits>>
reqvars == <<pc, isDeepResearch, query, tier, allResults, searchResults, sources, pending,
             wake, content, chunk, response, log, lastCall, llmCalls>>
editvars == <<epc, userRequest, currentContent, existingSources, editResponse, retry>>
vars == <<now, requestTimestamps, lastRequestTime, callers, calls, permits,
          pc, isDeepResearch, query, tier, allResults, searchResults, sources, pending,
          wake, content, chunk, response, log, lastCall, llmCalls,
          epc, userRequest, currentContent, existingSources, editResponse, retry>>

(***************************************************************************)
(* Helpers                                                                 *)
(***************************************************************************)
RECURSIVE SeqMin(_)
SeqMin(s) ==
  IF Len(s) = 1 THEN s[1]
  ELSE LET m == SeqMin(Tail(s)) IN IF s[1] < m THEN s[1] ELSE m

\* Math.ceil(a / b) for a > 0, b > 0
Ceil(a, b) == (a + b - 1) \div b

\* checkRateLimit without the clean-up of old timestamps
checkRateLimitNoPrune(t, ts, last) ==
  LET pruned == ts
      timeSinceLastRequest == t - last
  IN IF timeSinceLastRequest < MIN_DELAY_BETWEEN_REQUESTS
       THEN [kind |-> "throttled",
             waitTime |-> MIN_DELAY_BETWEEN_REQUESTS - timeSinceLastRequest,
             message |-> "",
             ts |-> pruned, last |-> last]
     ELSE IF Len(pruned) >= MAX_REQUESTS_PER_WINDOW
       THEN [kind |-> "denied",
             waitTime |-> 0,
             message |-> "Rate limit exceeded. Please wait "
                         \o ToString(Ceil(RATE_LIMIT_WINDOW - (t - SeqMin(pruned)), 1000))
                         \o " seconds before trying again.",
             ts |-> pruned, last |-> last]
     ELSE [kind |-> "granted",
           waitTime |-> 0,
           message |-> "",
           ts |-> Append(pruned, t), last |-> t]

\* checkRateLimit recording the time of a call it denies
checkRateLimitRecordsDenied(t, ts, last) ==
  LET pruned == SelectSeq(ts, LAMBDA timestamp : t - timestamp < RATE_LIMIT_WINDOW)
      timeSinceLastRequest == t - last
  IN IF timeSinceLastRequest < MIN_DELAY_BETWEEN_REQUESTS
       THEN [kind |-> "throttled",
             waitTime |-> MIN_DELAY_BETWEEN_REQUESTS - timeSinceLastRequest,
             message |-> "",
             ts |-> pruned, last |-> last]
     ELSE IF Len(pruned) >= MAX_REQUESTS_PER_WINDOW
       THEN [kind |-> "denied",
             waitTime |-> 0,
             message |-> "Rate limit exceeded. Please wait "
                         \o ToString(Ceil(RATE_LIMIT_WINDOW - (t - SeqMin(pruned)), 1000))
                         \o " seconds before trying again.",
             ts |-> Append(pruned, t), last |-> t]
     ELSE [kind |-> "granted",
           waitTime |-> 0,
           message |-> "",
           ts |-> Append(pruned, t), last |-> t]

(***************************************************************************)
(* checkRateLimit: one synchronous run of the function at time t on the    *)
(* limiter state (ts, last).  The result names the path taken and the      *)
(* limiter state it leaves behind.                                         *)
(***************************************************************************)
checkRateLimit(t, ts, last) ==
  LET pruned == SelectSeq(ts, LAMBDA timestamp : t - timestamp < RATE_LIMIT_WINDOW)
      timeSinceLastRequest == t - last
  IN IF timeSinceLastRequest < MIN_DELAY_BETWEEN_REQUESTS
       THEN [kind |-> "throttled",
             waitTime |-> MIN_DELAY_BETWEEN_REQUESTS - timeSinceLastRequest,
             message |-> "",
             ts |-> pruned, last |-> last]
     ELSE IF Len(pruned) >= MAX_REQUESTS_PER_WINDOW
       THEN LET oldestTimestamp == SeqMin(pruned)
                timeToWait == RATE_LIMIT_WINDOW - (t - oldestTimestamp)
            IN [kind |-> "denied",
                waitTime |-> 0,
                message |-> "Rate limit exceeded. Please wait "
                            \o ToString(Ceil(timeToWait, 1000))
                            \o " seconds before trying again.",
                ts |-> pruned, last |-> last]
     ELSE [kind |-> "granted",
           waitTime |-> 0,
           message |-> "",
           ts |-> Append(pruned, t), last |-> t]

\* the window as checkRateLimit sees it at time t, after pruning
PrunedWindow(t, ts) == SelectSeq(ts, LAMBDA timestamp : t - timestamp < RATE_LIMIT_WINDOW)

(***************************************************************************)
(* Strings                                                                 *)
(***************************************************************************)
Digits == {"0", "1", "2", "3", "4", "5", "6", "7", "8", "9"}
Letters == {"a", "b", "c", "d", "e", "f", "g", "h", "i", "j", "k", "l", "m",
            "n", "o", "p", "q", "r", "s", "t", "u", "v", "w", "x", "y", "z",
            "A", "B", "C", "D", "E", "F", "G", "H", "I", "J", "K", "L", "M",
            "N", "O", "P", "Q", "R", "S", "T", "U", "V", "W", "X", "Y", "Z", "-"}

Char(s, i) == SubSeq(s, i, i)

\* String.prototype.includes
Includes(s, sub) ==
  \E i \in 1..(Len(s) - Len(sub) + 1) : SubSeq(s, i, i + Len(sub) - 1) = sub

StartsWith(s, pre) == Len(s) >= Len(pre) /\ SubSeq(s, 1, Len(pre)) = pre

\* /^\d+$/ on the text between the brackets of a marker
IsDigits(s) == Len(s) > 0 /\ \A i \in 1..Len(s) : Char(s, i) \in Digits

\* /^[A-Za-z-]+$/
IsAlpha(s) == Len(s) > 0 /\ \A i \in 1..Len(s) : Char(s, i) \in Letters

\* /^\d{4}$/
IsYear(s) == Len(s) = 4 /\ IsDigits(s)

CountSpaces(s) == Cardinality({i \in 1..Len(s) : Char(s, i) = " "})

\* query?.trim(): the queries of the model are blank or have no outer blanks
Trim(s) == IF \A i \in 1..Len(s) : Char(s, i) = " " THEN "" ELSE s

Max(a, b) == IF a > b THEN a ELSE b
Min(a, b) == IF a < b THEN a ELSE b

\* the value of a property that an object does not have
undefined == "<undefined>"

(***************************************************************************)
(* URLs: new URL(u).hostname.replace(/^www\./, '')                         *)
(***************************************************************************)
SchemeLen(u) ==
  IF StartsWith(u, "https://") THEN 8
  ELSE IF StartsWith(u, "http://") THEN 7 ELSE 0

\* new URL(u) does not throw
UrlParses(u) == SchemeLen(u) > 0 /\ Len(u) > SchemeLen(u)

hostname(u) ==
  LET rest == SubSeq(u, SchemeLen(u) + 1, Len(u))
      slashes == {i \in 1..Len(rest) : Char(rest, i) = "/"}
      stop == IF slashes = {} THEN Len(rest) + 1
              ELSE CHOOSE i \in slashes : \A j \in slashes : i <= j
      host == SubSeq(rest, 1, stop - 1)
  IN IF StartsWith(host, "www.") THEN SubSeq(host, 5, Len(host)) ELSE host

(***************************************************************************)
(* Search hits and the search client                                       *)
(***************************************************************************)
\* a raw hit of the search provider; snippet is the list of its words,
\* image the og:image / cse_image of its pagemap ("" when it has none)
Hit(n, title, snippet, image) ==
  [title |-> title,
   link |-> IF n = 0 THEN "" ELSE "https://www.site" \o ToString(n) \o ".org/p",
   snippet |-> snippet,
   image |-> image]

\* GoogleSearchClient.search(query, {num}): one page for num <= 10; a page
\* that fails is caught and contributes no items
GoogleSearch(page, num) ==
  LET desiredResults == IF num = 0 THEN 10 ELSE num
      allItems == IF page.ok THEN page.items ELSE <<>>
  IN SubSeq(allItems, 1, Min(Len(allItems), desiredResults))

getFavicon(item) ==
  IF item.image # "" THEN item.image
  ELSE IF UrlParses(item.link)
    THEN "https://icons.duckduckgo.com/ip3/" \o hostname(item.link) \o ".ico"
    ELSE undefined

\* Array.from(new Map(items.map(item => [key, item])).values()), given the
\* keys of the items: one entry per key, at the place of its first
\* occurrence, holding its last occurrence; the result lists the indexes of
\* the items kept
DedupIndexes(keys) ==
  LET idx == [i \in 1..Len(keys) |-> i]
      firsts == SelectSeq(idx, LAMBDA i : \A j \in 1..(i - 1) : keys[j] # keys[i])
      lastOf(i) == CHOOSE j \in i..Len(keys) :
                     /\ keys[j] = keys[i]
                     /\ \A k \in (j + 1)..Len(keys) : keys[k] # keys[i]
  IN [k \in 1..Len(firsts) |-> lastOf(firsts[k])]

QUICK_RESEARCH_MIN_SOURCES == 10

\* the tail of searchWithPriority without the deduplication
UniqueResultsNoDedup(results) ==
  SubSeq(results, 1, Min(Len(results), Max(QUICK_RESEARCH_MIN_SOURCES, Len(results))))

\* the tail of searchWithPriority: deduplicate and slice
UniqueResults(results) ==
  LET kept == DedupIndexes([i \in 1..Len(results) |-> results[i].link])
      uniqueResults == [k \in 1..Len(kept) |-> results[kept[k]]]
  IN SubSeq(uniqueResults, 1,
            Min(Len(uniqueResults), Max(QUICK_RESEARCH_MIN_SOURCES, Len(uniqueResults))))

(***************************************************************************)
(* Source formatting (POST, quick mode)                                    *)
(***************************************************************************)
\* MapSources numbering the items from the last to the first
MapSourcesReversed(items, base) ==
  [i \in 1..Len(items) |->
     [id |-> ToString(base + Len(items) - i + 1),
      title |-> items[i].title,
      url |-> items[i].link,
      snippet |-> items[i].snippet,
      favicon |-> getFavicon(items[i])]]

\* items.map((item, i) => ({id: (base + i + 1).toString(), ...}))
MapSources(items, base) ==
  [i \in 1..Len(items) |->
     [id |-> ToString(base + i),
      title |-> items[i].title,
      url |-> items[i].link,
      snippet |-> items[i].snippet,
      favicon |-> getFavicon(items[i])]]

\* searchResults.map(...).filter(source => source.url && source.title)
FormatSources(items) ==
  SelectSeq(MapSources(items, 0), LAMBDA source : source.url # "" /\ source.title # "")

\* the sources a lookup adds: mapped with ids counted from sources.length,
\* then filtered on url, title and a url not yet among the sources
NewSources(items, srcs) ==
  SelectSeq(MapSources(items, Len(srcs)),
            LAMBDA source : /\ source.url # ""
                            /\ source.title # ""
                            /\ \A e \in 1..Len(srcs) : srcs[e].url # source.url)

\* the citations academicPattern finds in one snippet: a word of letters
\* followed by a four-digit year, as "<word> <year>"
SnippetCitations(snippet) ==
  LET idx == [i \in 1..Len(snippet) |-> i]
      hits == SelectSeq(idx, LAMBDA i : /\ i < Len(snippet)
                                        /\ IsAlpha(snippet[i])
                                        /\ IsYear(snippet[i + 1]))
  IN [k \in 1..Len(hits) |-> snippet[hits[k]] \o " " \o snippet[hits[k] + 1]]

RECURSIVE AllCitations(_)
AllCitations(srcs) ==
  IF srcs = <<>> THEN <<>>
  ELSE SnippetCitations(Head(srcs).snippet) \o AllCitations(Tail(srcs))

\* new Set<string>() filled in order: each citation once, in insertion order
AcademicCitations(srcs) ==
  LET all == AllCitations(srcs)
      idx == [i \in 1..Len(all) |-> i]
      firsts == SelectSeq(idx, LAMBDA i : \A j \in 1..(i - 1) : all[j] # all[i])
  IN [k \in 1..Len(firsts) |-> all[firsts[k]]]

(***************************************************************************)
(* Generated text.  A text is a sequence of tokens separated by white      *)
(* space: a run of n words of len characters each, a citation marker       *)
(* "[body]", the start of a references section ("References:",             *)
(* "Sources:" or "Bibliography:") and a header line "# body".              *)
(***************************************************************************)
W(n, l) == [k |-> "w", n |-> n, len |-> l, body |-> ""]
C(body) == [k |-> "c", n |-> 0, len |-> 0, body |-> body]
R == [k |-> "r", n |-> 0, len |-> 0, body |-> "References:"]
H(title) == [k |-> "h", n |-> 0, len |-> 0, body |-> title]

TokWords(tk) ==
  CASE tk.k = "w" -> tk.n
    [] tk.k = "c" -> 1 + CountSpaces(tk.body)
    [] tk.k = "r" -> 1
    [] tk.k = "h" -> 2 + CountSpaces(tk.body)

TokLength(tk) ==
  CASE tk.k = "w" -> tk.n * tk.len + (tk.n - 1)
    [] tk.k = "c" -> Len(tk.body) + 2
    [] tk.k = "r" -> Len(tk.body)
    [] tk.k = "h" -> Len(tk.body) + 2

RECURSIVE SumWords(_)
SumWords(text) == IF text = <<>> THEN 0 ELSE TokWords(Head(text)) + SumWords(Tail(text))

\* text.trim().split(/\s+/).length: the empty string splits into [""]
WordCount(text) == IF text = <<>> THEN 1 ELSE SumWords(text)

\* the white space between two tokens: a blank, or the blank line around a header
Gap(a, b) == IF a.k = "h" \/ b.k = "h" THEN 2 ELSE 1

RECURSIVE TextLength(_)
TextLength(text) ==
  IF text = <<>> THEN 0
  ELSE IF Len(text) = 1 THEN TokLength(text[1])
  ELSE TokLength(text[1]) + Gap(text[1], text[2]) + TextLength(Tail(text))

\* text.split(/References:|Sources:|Bibliography:/i)[0].trim()
SplitRefs(text) ==
  LET refs == {i \in 1..Len(text) : text[i].k = "r"}
      stop == IF refs = {} THEN Len(text) + 1
              ELSE CHOOSE i \in refs : \A j \in refs : i <= j
  IN SubSeq(text, 1, stop - 1)

\* (content.match(/\[\d+\]/g) || []).length
CountDigitMarkers(text) ==
  Cardinality({i \in 1..Len(text) : text[i].k = "c" /\ IsDigits(text[i].body)})

(***************************************************************************)
(* Citation markers of the list and range forms, as the endpoint variant   *)
(* that supports them expands them                                         *)
(***************************************************************************)
\* NaN, the value of Number() for a text that is no number and of 0 / 0, and
\* Infinity, the value of n / 0 for n > 0; every number the model computes
\* otherwise is at least 0
NaN == -1
Infinity == -2

RECURSIVE DigitsValue(_, _)
DigitsValue(s, acc) ==
  IF s = "" THEN acc
  ELSE DigitsValue(SubSeq(s, 2, Len(s)),
                   10 * acc + (CHOOSE d \in 0..9 : ToString(d) = Char(s, 1)))

\* Number(s): the empty string is 0, a string of digits its value
ToNumber(s) == IF s = "" THEN 0 ELSE IF IsDigits(s) THEN DigitsValue(s, 0) ELSE NaN

\* the index of the first occurrence of the character c in s, 0 if none
IndexOf(s, c) ==
  LET at == {i \in 1..Len(s) : Char(s, i) = c}
  IN IF at = {} THEN 0 ELSE CHOOSE i \in at : \A j \in at : i <= j

\* s without its leading white space
RECURSIVE TrimStart(_)
TrimStart(s) == IF s # "" /\ Char(s, 1) = " " THEN TrimStart(SubSeq(s, 2, Len(s))) ELSE s

\* ids.split(/,\s*/)
RECURSIVE SplitCommas(_)
SplitCommas(s) ==
  LET i == IndexOf(s, ",")
  IN IF i = 0 THEN <<s>>
     ELSE <<SubSeq(s, 1, i - 1)>> \o SplitCommas(TrimStart(SubSeq(s, i + 1, Len(s))))

\* part.split('-')
RECURSIVE SplitDash(_)
SplitDash(s) ==
  LET i == IndexOf(s, "-")
  IN IF i = 0 THEN <<s>>
     ELSE <<SubSeq(s, 1, i - 1)>> \o SplitDash(SubSeq(s, i + 1, Len(s)))

\* one part of a marker: a range start-end gives String(start + i) for
\* i < end - start + 1 (nothing when that length is NaN or not positive),
\* any other part gives itself
ExpandPart(part) ==
  IF Includes(part, "-")
    THEN LET p == SplitDash(part)
             start == ToNumber(p[1])
             end == ToNumber(p[2])
             length == IF start = NaN \/ end = NaN THEN 0 ELSE Max(0, end - start + 1)
         IN [i \in 1..length |-> ToString(start + i - 1)]
  ELSE <<Trim(part)>>

RECURSIVE ExpandParts(_)
ExpandParts(parts) ==
  IF parts = <<>> THEN <<>> ELSE ExpandPart(Head(parts)) \o ExpandParts(Tail(parts))

\* ids.split(/,\s*/).flatMap(...): the ids one marker [ids] stands for
ExpandMarker(body) == ExpandParts(SplitCommas(body))

\* the ids of all markers /\[([^\]]+)\]/g of a text, in order, repeats kept
RECURSIVE ExpandedCitations(_)
ExpandedCitations(text) ==
  IF text = <<>> THEN <<>>
  ELSE (IF Head(text).k = "c" /\ Head(text).body # ""
          THEN ExpandMarker(Head(text).body) ELSE <<>>)
       \o ExpandedCitations(Tail(text))

\* Math.round(a / b * 100) for a >= 0; a division by zero gives NaN or Infinity
RoundPercent(a, b) ==
  IF b = 0 THEN (IF a = 0 THEN NaN ELSE Infinity)
  ELSE (200 * a + b) \div (2 * b)

(***************************************************************************)
(* formatContentToHTML(content, sources)                                   *)
(***************************************************************************)
\* a lookup that falls back on the first source when none has the id
FindSourceOrFirst(srcs, id) ==
  LET found == {i \in 1..Len(srcs) : srcs[i].id = id}
  IN IF found = {} THEN Min(1, Len(srcs)) ELSE CHOOSE i \in found : \A j \in found : i <= j

\* sources.find(s => s.id === id): the first source with that id, 0 if none
FindSource(srcs, id) ==
  LET found == {i \in 1..Len(srcs) : srcs[i].id = id}
  IN IF found = {} THEN 0 ELSE CHOOSE i \in found : \A j \in found : i <= j

Anchor(source, id) ==
  LET label == IF UrlParses(source.url)
                 THEN "[" \o id \o " " \o hostname(source.url) \o "]"
                 ELSE "[" \o id \o "]"
  IN [k |-> "a", href |-> source.url, title |-> source.title, id |-> id,
      body |-> "<a href=\"" \o source.url
               \o "\" target=\"_blank\" rel=\"noopener noreferrer\" class=\"citation\" title=\""
               \o source.title \o "\">" \o label \o "</a>"]

\* the replacement of one token: /\[(\d+)\]/g turns a marker of a known
\* source into an anchor and leaves every other marker as it is
RenderToken(tk, srcs) ==
  IF tk.k = "c" /\ IsDigits(tk.body) /\ FindSource(srcs, tk.body) # 0
    THEN Anchor(srcs[FindSource(srcs, tk.body)], tk.body)
  ELSE IF tk.k = "h"
    THEN [k |-> "h", href |-> "", title |-> "", id |-> "",
          body |-> "<h1>" \o tk.body \o "</h1>"]
  ELSE [k |-> tk.k, href |-> "", title |-> "", id |-> tk.body,
        body |-> IF tk.k = "c" THEN "[" \o tk.body \o "]" ELSE ""]

RECURSIVE HtmlLength(_, _)
\* the length of the markup: tokens, one blank or newline between them and
\* <p></p> around every line that is not a header
HtmlLength(main, html) ==
  IF main = <<>> THEN 0
  ELSE LET own == IF main[1].k = "w" THEN TokLength(main[1]) ELSE Len(html[1].body)
           para == IF main[1].k # "h" /\ (Len(main) = 1 \/ main[2].k = "h") THEN 7 ELSE 0
           sep == IF Len(main) = 1 THEN 0 ELSE 1
       IN own + para + sep + HtmlLength(Tail(main), Tail(html))

formatContentToHTML(text, srcs) ==
  LET mainContent == SplitRefs(text)
      html == [i \in 1..Len(mainContent) |-> RenderToken(mainContent[i], srcs)]
  IN IF mainContent = <<>>
       THEN [ok |-> FALSE, html |-> <<>>,
             message |-> "Content generation failed - empty response received"]
     ELSE IF HtmlLength(mainContent, html) < 100
       THEN [ok |-> FALSE, html |-> <<>>,
             message |-> "Content generation failed - response too short"]
     ELSE [ok |-> TRUE, html |-> html, message |-> ""]

(***************************************************************************)
(* The error responses of POST                                             *)
(***************************************************************************)
\* ErrorResponse carrying what the handler had gathered when it failed
ErrorResponsePartial(message) ==
  LET statusCode == IF Includes(message, "rate limit") THEN 429
                    ELSE IF Includes(message, "quota") THEN 429
                    ELSE IF Includes(message, "invalid") THEN 400
                    ELSE 500
  IN [status |-> statusCode, error |-> message, details |-> "Please try again later.",
      content |-> content, sources |-> sources,
      metadata |-> [sourceCount |-> 0, citationsUsed |-> 0,
                    sourceUsagePercent |-> 0, wordCount |-> 0]]

\* the catch blocks of POST: the status follows from the message
ErrorResponse(message) ==
  LET statusCode == IF Includes(message, "rate limit") THEN 429
                    ELSE IF Includes(message, "quota") THEN 429
                    ELSE IF Includes(message, "invalid") THEN 400
                    ELSE 500
      details == IF Includes(message, "rate limit")
                   THEN "The API is rate limited. Please wait before trying again."
                 ELSE IF Includes(message, "quota")
                   THEN "API quota exceeded. Please try again later."
                 ELSE IF Includes(message, "invalid")
                   THEN "Invalid request. Please check your input and try again."
                 ELSE "Please try again later."
  IN [status |-> statusCode, error |-> message, details |-> details,
      content |-> <<>>, sources |-> <<>>,
      metadata |-> [sourceCount |-> 0, citationsUsed |-> 0,
                    sourceUsagePercent |-> 0, wordCount |-> 0]]

\* the catch around the quick-mode generation: the message is wrapped
QuickGenerationError(message) ==
  LET errorMessage ==
        IF Includes(message, "rate limit")
          THEN "AI model rate limit exceeded. Please try again in a few moments."
        ELSE IF Includes(message, "quota")
          THEN "AI model quota exceeded. Please try again later."
        ELSE IF Includes(message, "invalid")
          THEN "Invalid request to AI model. Please try a different query."
        ELSE "Failed to generate content."
  IN errorMessage \o "\nDetails: " \o message

\* the floors of the quick-mode report
QUICK_MIN_CHARS == 500
QUICK_MIN_WORDS == 900

\* QuickContentError without the check of the word count
QuickContentErrorNoWordFloor(text) ==
  IF text = <<>> THEN "Empty response from Gemini"
  ELSE IF TextLength(text) < QUICK_MIN_CHARS THEN "Generated content too short"
  ELSE ""

\* the checks on the text Gemini returned in quick mode; "" when it passes
QuickContentError(text) ==
  IF text = <<>> THEN "Empty response from Gemini"
  ELSE IF TextLength(text) < QUICK_MIN_CHARS THEN "Generated content too short"
  ELSE IF WordCount(text) < QUICK_MIN_WORDS
    THEN "Generated content too short (minimum 900 words required)"
  ELSE ""

SuccessResponse(html, srcs, text) ==
  [status |-> 200, error |-> "", details |-> "",
   content |-> html, sources |-> srcs,
   metadata |-> [sourceCount |-> Len(srcs),
                 citationsUsed |-> CountDigitMarkers(text),
                 sourceUsagePercent |-> RoundPercent(CountDigitMarkers(text), Len(srcs)),
                 wordCount |-> WordCount(text)]]

NoResponse == [status |-> 0, error |-> "", details |-> "", content |-> <<>>,
               sources |-> <<>>,
               metadata |-> [sourceCount |-> 0, citationsUsed |-> 0,
                             sourceUsagePercent |-> 0, wordCount |-> 0]]

(***************************************************************************)
(* The callers of the limiter and the history kept of their calls         *)
(***************************************************************************)
Callers == 1..NumCallers

NoCall == [caller |-> 0, t |-> 0, kind |-> "none", res |-> -1, held |-> 0,
           oldest |-> 0, message |-> ""]

CallRecord(p, t, r, ts) ==
  LET pruned == PrunedWindow(t, ts)
  IN [caller |-> p, t |-> t, kind |-> r.kind,
      res |-> IF r.kind = "granted" THEN t ELSE -1,
      held |-> Len(pruned),
      oldest |-> IF Len(pruned) > 0 THEN SeqMin(pruned) ELSE 0,
      message |-> r.message]

(***************************************************************************)
(* Spec: one invocation of the research endpoint POST.                     *)
(***************************************************************************)
\* the request may arrive for this long after the limiter's last grant
ReqElapsed == 6000

\* the limiter after k grants spaced MIN_DELAY_BETWEEN_REQUESTS apart, the
\* last of them MIN_DELAY_BETWEEN_REQUESTS before StartTime
RECURSIVE Warm(_)
Warm(k) ==
  IF k = 0 THEN [ts |-> <<>>, last |-> 0]
  ELSE LET before == Warm(k - 1)
           r == checkRateLimit(StartTime - (MAX_REQUESTS_PER_WINDOW - k + 1) * MIN_DELAY_BETWEEN_REQUESTS,
                               before.ts, before.last)
       IN [ts |-> r.ts, last |-> r.last]

\* ---- inputs of the model ----------------------------------------------
Queries == {undefined, "  ", "llm agents"}

\* pages the search provider may answer with
GooglePages ==
  { [ok |-> FALSE, items |-> <<>>],
    [ok |-> TRUE, items |-> <<>>],
    [ok |-> TRUE, items |-> << Hit(1, "", <<"untitled">>, ""),
                               Hit(2, "Agents", <<"Smith", "2020", "survey">>, ""),
                               Hit(3, "Planning", <<"a", "study">>, "https://img.org/3.png") >>],
    [ok |-> TRUE, items |-> << Hit(4, "Tools", <<"Lee", "2021">>, ""),
                               Hit(2, "Agents again", <<"dup">>, ""),
                               Hit(4, "Tools mirror", <<"Lee", "2021">>, "") >>],
    [ok |-> TRUE, items |-> [i \in 1..10 |-> Hit(10 + i, "Paper", <<"text">>, "")]] }

\* errors the LLM client may throw
LLMErrors ==
  { "429 Too Many Requests: rate limit reached",
    "Resource has been exhausted (e.g. check quota).",
    "fetch failed" }

\* texts Gemini may return in quick mode
QuickTexts ==
  { <<>>,
    << W(480, 5), C("1") >>,
    << W(898, 5), C("2") >>,
    << W(897, 5), C("1"), C("3"), C("99") >>,
    << W(896, 5), C("1"), C("2, 4"), C("6-8") >>,
    << W(450, 5), C("2"), R, W(450, 5), C("3") >>,
    << R, W(900, 5) >>,
    << C("3"), R, W(900, 5) >> }

Event(ev, who, kind) ==
  [ev |-> ev, who |-> who, kind |-> kind, section |-> 0, attempt |-> 0,
   context |-> <<>>, text |-> <<>>, message |-> ""]

LLMEvent(section, attempt, context, out) ==
  [ev |-> "llm", who |-> "gemini", kind |-> IF out.ok THEN "text" ELSE "threw",
   section |-> section, attempt |-> attempt,
   context |-> context, text |-> out.text, message |-> out.message]

NoLLMCall == [ev |-> "none", who |-> "", kind |-> "", section |-> 0, attempt |-> 0,
              context |-> <<>>, text |-> <<>>, message |-> ""]

NoChunk == [i |-> 0, attempts |-> 0, allContent |-> <<>>, previousContent |-> <<>>,
            prompts |-> <<>>]

NoEditMetadata == [citationsUsed |-> 0, sourceUsagePercent |-> 0]

\* a response of the edit endpoint that carries an error and nothing else
EditError(status, message) ==
  [status |-> status, error |-> message, details |-> "", editedContent |-> <<>>,
   hasMetadata |-> FALSE, metadata |-> NoEditMetadata]

\* error.stack of an Error created with the message
StackOf(message) == "Error: " \o message \o "\n    at POST"

\* the outer catch of the edit endpoint:
\* { error: error.message, details: error.stack }, status error.status || 500
EditCaught(status, message) ==
  [EditError(IF status # 0 THEN status ELSE 500, message) EXCEPT !.details = StackOf(message)]

NoEditResponse == EditError(0, "")

\* no call of retryWithTimeout is running
NoRetry == [retries |-> 0, timeoutMs |-> 0, invocations |-> 0, deadline |-> 0,
            aborted |-> FALSE]

\* the edit endpoint before a request
EditInit ==
  /\ epc = "idle"
  /\ userRequest = undefined
  /\ currentContent = <<>>
  /\ existingSources = <<>>
  /\ editResponse = NoEditResponse
  /\ retry = NoRetry

ReqInit ==
  /\ pc = "idle"
  /\ isDeepResearch = FALSE
  /\ query = undefined
  /\ tier = 0
  /\ allResults = <<>>
  /\ searchResults = <<>>
  /\ sources = <<>>
  /\ pending = <<>>
  /\ wake = 0
  /\ content = <<>>
  /\ chunk = NoChunk
  /\ response = NoResponse
  /\ log = <<>>
  /\ lastCall = NoLLMCall
  /\ llmCalls = 0

Init ==
  /\ now = StartTime
  /\ \E k \in 0..MAX_REQUESTS_PER_WINDOW :
       /\ requestTimestamps = Warm(k).ts
       /\ lastRequestTime = Warm(k).last
  /\ callers = [p \in Callers |-> [st |-> "idle", wake |-> 0]]
  /\ calls = <<NoCall, NoCall>>
  /\ permits = <<>>
  /\ ReqInit
  /\ EditInit

\* the handler returns: NextResponse.json(...)
Respond(r) ==
  /\ pc' = "done"
  /\ response' = r

\* where POST goes once the academic-citation lookups are over
AfterLookups(srcs) ==
  IF Len(srcs) < QUICK_RESEARCH_MIN_SOURCES THEN "backupAcquire" ELSE "generate"

\* POST up to its first await
Receive(q, deep) ==
  /\ pc = "idle"
  /\ query' = q
  /\ isDeepResearch' = deep
  /\ IF deep
       THEN /\ pc' = "serperAcademic"
            /\ UNCHANGED <<tier, response>>
     ELSE IF q = undefined \/ Trim(q) = ""
       THEN /\ Respond(ErrorResponse("Please provide a search query."))
            /\ UNCHANGED tier
     ELSE /\ pc' = "tierAcquire"
          /\ tier' = 1
          /\ UNCHANGED response
  /\ UNCHANGED <<limvars, rlonly, editvars, allResults, searchResults, sources, pending, wake, content, chunk, log,
                 lastCall, llmCalls>>

\* searchWithPriority: await checkRateLimit() in front of a tier
TierAcquire ==
  /\ pc = "tierAcquire"
  /\ LET r == checkRateLimit(now, requestTimestamps, lastRequestTime)
     IN /\ requestTimestamps' = r.ts
        /\ lastRequestTime' = r.last
        /\ log' = Append(log, [Event("acquire", "tier", r.kind) EXCEPT
                                 !.section = tier, !.message = r.message])
        /\ CASE r.kind = "granted" ->
                  /\ pc' = "tierSearch"
                  /\ UNCHANGED <<wake, response>>
             [] r.kind = "throttled" ->
                  /\ pc' = "tierWait"
                  /\ wake' = now + r.waitTime
                  /\ UNCHANGED response
             [] r.kind = "denied" ->
                  \* caught by searchWithPriority, rethrown, caught by POST
                  /\ Respond(ErrorResponse("Failed to search for sources. Please try again."))
                  /\ UNCHANGED wake
  /\ UNCHANGED <<now, rlonly, editvars, isDeepResearch, query, tier, allResults, searchResults, sources,
                 pending, content, chunk, lastCall, llmCalls>>

\* the setTimeout of a throttled acquire fires
Wake ==
  /\ pc \in {"tierWait", "acadWait", "backupWait"}
  /\ now >= wake
  /\ pc' = CASE pc = "tierWait" -> "tierSearch"
             [] pc = "acadWait" -> "acadSearch"
             [] pc = "backupWait" -> "backupSearch"
  /\ UNCHANGED <<limvars, rlonly, editvars, isDeepResearch, query, tier, allResults, searchResults, sources,
                 pending, wake, content, chunk, response, log, lastCall, llmCalls>>

\* a search that goes on to the next tier whatever it has gathered
NeedsNextTierAlways(t, results) == t < 3

\* a search that stops after its first tier
NeedsNextTierNever(t, results) == FALSE

\* if (allResults.length < minSources) in front of the second and the third tier
NeedsNextTier(t, results) == t < 3 /\ Len(results) < QUICK_RESEARCH_MIN_SOURCES

\* searchWithPriority: one tier's googleSearch.search and what follows it
\* up to the next await
TierSearch(page) ==
  /\ pc = "tierSearch"
  /\ LET items == GoogleSearch(page, 0)
         results == IF tier = 1 THEN items ELSE allResults \o items
     IN /\ allResults' = results
        /\ log' = Append(log, [Event("search", "tier", IF page.ok THEN "ok" ELSE "failed")
                                 EXCEPT !.section = tier])
        /\ IF NeedsNextTier(tier, results)
             THEN /\ tier' = tier + 1
                  /\ pc' = "tierAcquire"
                  /\ UNCHANGED <<searchResults, sources, pending, response>>
           ELSE LET returned == UniqueResults(results)
                    formatted == FormatSources(returned)
                    academicCitations == AcademicCitations(formatted)
                IN /\ UNCHANGED tier
                   /\ searchResults' = returned
                   /\ IF returned = <<>>
                        THEN /\ Respond(ErrorResponse(
                                  "No relevant sources found. Please try:\n"
                                  \o "- Using more specific keywords\n"
                                  \o "- Removing special characters\n"
                                  \o "- Checking for typos\n"
                                  \o "- Broadening your search terms"))
                             /\ UNCHANGED <<sources, pending>>
                      ELSE /\ sources' = formatted
                           /\ pending' = academicCitations
                           /\ pc' = IF academicCitations # <<>> THEN "acadAcquire"
                                    ELSE AfterLookups(formatted)
                           /\ UNCHANGED response
  /\ UNCHANGED <<limvars, rlonly, editvars, isDeepResearch, query, wake, content, chunk,
                 lastCall, llmCalls>>

\* POST step 4: await checkRateLimit() in front of one citation lookup
AcadAcquire ==
  /\ pc = "acadAcquire"
  /\ LET r == checkRateLimit(now, requestTimestamps, lastRequestTime)
     IN /\ requestTimestamps' = r.ts
        /\ lastRequestTime' = r.last
        /\ log' = Append(log, [Event("acquire", "acad", r.kind) EXCEPT !.message = r.message])
        /\ CASE r.kind = "granted" ->
                  /\ pc' = "acadSearch"
                  /\ UNCHANGED <<wake, pending>>
             [] r.kind = "throttled" ->
                  /\ pc' = "acadWait"
                  /\ wake' = now + r.waitTime
                  /\ UNCHANGED pending
             [] r.kind = "denied" ->
                  \* caught inside the loop: continue with the next citation
                  /\ pending' = Tail(pending)
                  /\ pc' = IF Tail(pending) # <<>> THEN "acadAcquire" ELSE AfterLookups(sources)
                  /\ UNCHANGED wake
  /\ UNCHANGED <<now, rlonly, editvars, isDeepResearch, query, tier, allResults, searchResults, sources,
                 content, chunk, response, lastCall, llmCalls>>

\* POST step 4: one citation lookup, googleSearch.search(..., { num: 1 })
AcadSearch(page) ==
  /\ pc = "acadSearch"
  /\ LET items == GoogleSearch(page, 1)
         newSources == NewSources(items, sources)
         srcs == sources \o newSources
     IN /\ sources' = srcs
        /\ pending' = Tail(pending)
        /\ log' = Append(log, Event("search", "acad", IF page.ok THEN "ok" ELSE "failed"))
        /\ pc' = IF Tail(pending) # <<>> THEN "acadAcquire" ELSE AfterLookups(srcs)
  /\ UNCHANGED <<limvars, rlonly, editvars, isDeepResearch, query, tier, allResults, searchResults, wake,
                 content, chunk, response, lastCall, llmCalls>>

\* POST: await checkRateLimit() in front of the backup search
BackupAcquire ==
  /\ pc = "backupAcquire"
  /\ LET r == checkRateLimit(now, requestTimestamps, lastRequestTime)
     IN /\ requestTimestamps' = r.ts
        /\ lastRequestTime' = r.last
        /\ log' = Append(log, [Event("acquire", "backup", r.kind) EXCEPT !.message = r.message])
        /\ CASE r.kind = "granted" ->
                  /\ pc' = "backupSearch"
                  /\ UNCHANGED wake
             [] r.kind = "throttled" ->
                  /\ pc' = "backupWait"
                  /\ wake' = now + r.waitTime
             [] r.kind = "denied" ->
                  \* caught: 'Failed to fetch backup sources'
                  /\ pc' = "generate"
                  /\ UNCHANGED wake
  /\ UNCHANGED <<now, rlonly, editvars, isDeepResearch, query, tier, allResults, searchResults, sources,
                 pending, content, chunk, response, lastCall, llmCalls>>

\* POST: the backup search
BackupSearch(page) ==
  /\ pc = "backupSearch"
  /\ LET items == GoogleSearch(page, Max(5, QUICK_RESEARCH_MIN_SOURCES - Len(sources)))
     IN sources' = sources \o NewSources(items, sources)
  /\ log' = Append(log, Event("search", "backup", IF page.ok THEN "ok" ELSE "failed"))
  /\ pc' = "generate"
  /\ UNCHANGED <<limvars, rlonly, editvars, isDeepResearch, query, tier, allResults, searchResults, pending,
                 wake, content, chunk, response, lastCall, llmCalls>>

\* POST step 5 to the end: the Gemini call, the checks on its text, the
\* rendering and the response
Generate(out) ==
  /\ pc = "generate"
  /\ lastCall' = LLMEvent(0, 1, <<>>, out)
  /\ llmCalls' = llmCalls + 1
  /\ LET failure == IF out.ok THEN QuickContentError(out.text) ELSE out.message
         rendered == formatContentToHTML(out.text, sources)
     IN IF failure # ""
          THEN /\ Respond(ErrorResponse(QuickGenerationError(failure)))
               /\ UNCHANGED content
        ELSE /\ content' = out.text
             /\ IF rendered.ok
                  THEN Respond(SuccessResponse(rendered.html, sources, out.text))
                  ELSE Respond(ErrorResponse(rendered.message))
  /\ UNCHANGED <<limvars, rlonly, editvars, isDeepResearch, query, tier, allResults, searchResults, sources,
                 pending, wake, chunk, log>>

\* time passes while the handler is about to acquire or waits for its timer
Tick ==
  /\ pc \in {"tierAcquire", "acadAcquire", "backupAcquire",
             "tierWait", "acadWait", "backupWait"}
  /\ now + TickMs <= StartTime + ReqElapsed
  /\ now' = now + TickMs
  /\ UNCHANGED <<requestTimestamps, lastRequestTime, rlonly, editvars, reqvars>>

QuickOutcomes ==
  { [ok |-> TRUE, text |-> t, message |-> ""] : t \in QuickTexts }
  \cup { [ok |-> FALSE, text |-> <<>>, message |-> m] : m \in LLMErrors }

(***************************************************************************)
(* Deep mode: fetchSerperSources and generateDeepResearch                  *)
(***************************************************************************)
\* the number of sources fetchSerperSources asks for and keeps
SERPER_SOURCES == 30
\* a cap of one attempt more
maxAttemptsOneMore == 3 + 1
\* maxAttempts of generateDeepResearch
maxAttempts == 3
\* minimums that add up to less than the minimum of the combined report
minWordsLower == <<200, 1200, 300, 200, 80>>
\* the minimum word count of each section
minWords == <<200, 1200, 300, 200, 100>>
\* the minimum word count of the combined report
MIN_TOTAL_WORDS == 2000

sectionHeaders == <<"Introduction", "Literature Review", "Research Methodology",
                    "Data Analysis", "Conclusion">>

\* a result of Serper's organic list, as fetchSerperSources maps it; the
\* objects it builds have no id property
SerperResult(n, position) ==
  [id |-> undefined,
   title |-> "Result " \o ToString(n),
   url |-> IF n = 0 THEN "not a url" ELSE "https://www.serp" \o ToString(n) \o ".org/p",
   snippet |-> <<"text">>,
   position |-> position,
   favicon |-> undefined]

SerperPages ==
  { [ok |-> FALSE, organic |-> <<>>],
    [ok |-> TRUE, organic |-> <<>>],
    [ok |-> TRUE, organic |-> << SerperResult(1, 1), SerperResult(2, 2) >>],
    [ok |-> TRUE, organic |-> << SerperResult(2, 1), SerperResult(0, 2), SerperResult(3, 3) >>],
    [ok |-> TRUE, organic |-> [i \in 1..SERPER_SOURCES |-> SerperResult(100 + i, i)]] }

\* items.sort((a, b) => (a.position || 0) - (b.position || 0)), a stable sort:
\* an item comes before those of a greater position and before the later
\* ones of its own position
SortByPosition(items) ==
  LET n == Len(items)
      Before(i, j) == \/ items[i].position < items[j].position
                      \/ items[i].position = items[j].position /\ i < j
      rank(i) == Cardinality({j \in 1..n : Before(j, i)}) + 1
  IN [r \in 1..n |-> items[CHOOSE i \in 1..n : rank(i) = r]]

\* the tail of fetchSerperSources: favicons, deduplication by url, sort, slice
ProcessSerperSources(raw) ==
  LET processedSources ==
        [i \in 1..Len(raw) |->
           [raw[i] EXCEPT !.favicon =
              IF UrlParses(raw[i].url)
                THEN "https://icons.duckduckgo.com/ip3/" \o hostname(raw[i].url) \o ".ico"
                ELSE undefined]]
      kept == DedupIndexes([i \in 1..Len(processedSources) |-> processedSources[i].url])
      uniqueSources == [k \in 1..Len(kept) |-> processedSources[kept[k]]]
      sorted == SortByPosition(uniqueSources)
  IN SubSeq(sorted, 1, Min(Len(sorted), SERPER_SOURCES))

\* the prompts array of generateDeepResearch, built once from the value
\* previousContent has when the array literal is evaluated; only the section
\* and the previous section's text that the template embeds are kept
BuildPrompts(previousContent) ==
  [k \in 1..5 |-> [section |-> k,
                   context |-> IF k = 1 THEN <<>> ELSE previousContent]]

\* `# Introduction\n\n${allContent[0]}\n\n# Literature Review\n\n...`
RECURSIVE FullContent(_, _)
FullContent(allContent, k) ==
  IF k > Len(allContent) THEN <<>>
  ELSE <<H(sectionHeaders[k])>> \o allContent[k] \o FullContent(allContent, k + 1)

\* ChunkError counting the words of the response before its references
\* section is cut off
ChunkErrorRawCount(out, section) ==
  LET wordCount == WordCount(out.text)
  IN IF ~out.ok THEN out.message
     ELSE IF out.text = <<>> THEN "Empty response for chunk " \o ToString(section)
     ELSE IF wordCount < minWords[section]
       THEN "Chunk " \o ToString(section) \o " too short (" \o ToString(wordCount)
            \o " words, minimum " \o ToString(minWords[section]) \o " required)"
     ELSE ""

\* the checks on one chunk's response; "" when the chunk is accepted
ChunkError(out, section) ==
  LET cleanedContent == SplitRefs(out.text)
      wordCount == WordCount(cleanedContent)
  IN IF ~out.ok THEN out.message
     ELSE IF out.text = <<>> THEN "Empty response for chunk " \o ToString(section)
     ELSE IF wordCount < minWords[section]
       THEN "Chunk " \o ToString(section) \o " too short (" \o ToString(wordCount)
            \o " words, minimum " \o ToString(minWords[section]) \o " required)"
     ELSE ""

\* sources.map((s, i) => ({ id: String(i + 1), ...s }))
NumberSources(srcs) ==
  [i \in 1..Len(srcs) |->
     [srcs[i] EXCEPT !.id = IF srcs[i].id = undefined THEN ToString(i) ELSE srcs[i].id]]

\* texts Gemini may return for a section
DeepTexts(section) ==
  LET m == minWords[section]
  IN { <<>>,
       << W(m - 2, 5), C("1") >>,
       << W(m - 1, 5), C("1") >>,
       << W(m - 1, 5), C("1"), R, W(50, 5), C("2") >>,
       << W(m - 5, 5), R, W(100, 5) >> }

DeepOutcomes(section) ==
  { [ok |-> TRUE, text |-> t, message |-> ""] : t \in DeepTexts(section) }
  \cup { [ok |-> FALSE, text |-> <<>>, message |-> "fetch failed"] }

\* the outcomes of the five sections, evaluated once
SectionOutcomes ==
  << DeepOutcomes(1), DeepOutcomes(2), DeepOutcomes(3), DeepOutcomes(4), DeepOutcomes(5) >>

\* fetchSerperSources: the academic request
SerperAcademic(page) ==
  /\ pc = "serperAcademic"
  /\ log' = Append(log, Event("search", "serperAcademic", IF page.ok THEN "ok" ELSE "failed"))
  /\ IF ~page.ok
       THEN /\ Respond(ErrorResponse("Serper API returned 429: Too Many Requests"))
            /\ UNCHANGED <<sources, chunk>>
     ELSE IF Len(page.organic) < SERPER_SOURCES
       THEN /\ sources' = page.organic
            /\ pc' = "serperGeneral"
            /\ UNCHANGED <<response, chunk>>
     ELSE /\ sources' = ProcessSerperSources(page.organic)
          /\ chunk' = [NoChunk EXCEPT !.prompts = BuildPrompts(<<>>)]
          /\ pc' = "chunk"
          /\ UNCHANGED response
  /\ UNCHANGED <<limvars, rlonly, editvars, isDeepResearch, query, tier, allResults, searchResults, pending,
                 wake, content, lastCall, llmCalls>>

\* fetchSerperSources: the general request and the processing of the
\* sources, then generateDeepResearch up to its first LLM call
SerperGeneral(page) ==
  /\ pc = "serperGeneral"
  /\ log' = Append(log, Event("search", "serperGeneral", IF page.ok THEN "ok" ELSE "failed"))
  /\ IF ~page.ok
       THEN /\ Respond(ErrorResponse("Serper API returned 429: Too Many Requests"))
            /\ UNCHANGED <<sources, chunk>>
     ELSE /\ sources' = ProcessSerperSources(sources \o page.organic)
          /\ chunk' = [NoChunk EXCEPT !.prompts = BuildPrompts(<<>>)]
          /\ pc' = "chunk"
          /\ UNCHANGED response
  /\ UNCHANGED <<limvars, rlonly, editvars, isDeepResearch, query, tier, allResults, searchResults, pending,
                 wake, content, lastCall, llmCalls>>

\* generateDeepResearch: one attempt of one chunk, and after the last chunk
\* the combination, the rendering and the response of POST
GenerateChunk(out) ==
  /\ pc = "chunk"
  /\ LET section == chunk.i + 1
         failure == ChunkError(out, section)
         cleanedContent == SplitRefs(out.text)
         all == Append(chunk.allContent, cleanedContent)
         fullContent == FullContent(all, 1)
         totalWords == WordCount(fullContent)
         rendered == formatContentToHTML(fullContent, sources)
     IN /\ lastCall' = LLMEvent(section, chunk.attempts + 1,
                                chunk.prompts[section].context, out)
        /\ llmCalls' = llmCalls + 1
        /\ IF failure # ""
             THEN /\ chunk' = [chunk EXCEPT !.attempts = @ + 1]
                  /\ UNCHANGED content
                  /\ IF chunk.attempts + 1 = maxAttempts
                       THEN Respond(ErrorResponse(
                              "Research generation failed: Failed to generate chunk "
                              \o ToString(section) \o " after " \o ToString(maxAttempts)
                              \o " attempts: " \o failure))
                       ELSE /\ pc' = "chunkBackoff"
                            /\ UNCHANGED response
           ELSE /\ chunk' = [chunk EXCEPT !.i = @ + 1, !.attempts = 0,
                                          !.allContent = all,
                                          !.previousContent = cleanedContent]
                /\ IF section < Len(chunk.prompts)
                     THEN /\ pc' = "chunk"
                          /\ UNCHANGED <<content, response>>
                   ELSE IF totalWords < MIN_TOTAL_WORDS
                     THEN /\ Respond(ErrorResponse(
                               "Research generation failed: Total content too short ("
                               \o ToString(totalWords) \o " words)"))
                          /\ UNCHANGED content
                   ELSE /\ content' = fullContent
                        /\ IF rendered.ok
                             THEN Respond(SuccessResponse(rendered.html,
                                                          NumberSources(sources), fullContent))
                             ELSE Respond(ErrorResponse(rendered.message))
  /\ UNCHANGED <<limvars, rlonly, editvars, isDeepResearch, query, tier, allResults, searchResults, sources,
                 pending, wake, log>>

\* the one-second setTimeout between two attempts of a chunk is over
ChunkRetry ==
  /\ pc = "chunkBackoff"
  /\ pc' = "chunk"
  /\ UNCHANGED <<limvars, rlonly, editvars, isDeepResearch, query, tier, allResults, searchResults, sources,
                 pending, wake, content, chunk, response, log, lastCall, llmCalls>>

Next ==
  \/ \E q \in Queries, deep \in BOOLEAN : Receive(q, deep)
  \/ TierAcquire
  \/ Wake
  \/ \E page \in GooglePages : TierSearch(page)
  \/ AcadAcquire
  \/ \E page \in GooglePages : AcadSearch(page)
  \/ BackupAcquire
  \/ \E page \in GooglePages : BackupSearch(page)
  \/ \E out \in QuickOutcomes : Generate(out)
  \/ Tick
  \/ \E page \in SerperPages : SerperAcademic(page)
  \/ \E page \in SerperPages : SerperGeneral(page)
  \/ \E section \in 1..5 : \E out \in SectionOutcomes[section] :
       section = chunk.i + 1 /\ GenerateChunk(out)
  \/ ChunkRetry

Spec == Init /\ [][Next]_vars

(***************************************************************************)
(* SpecRL: the limiter under concurrent callers.                           *)
(***************************************************************************)
RLInit ==
  /\ now = StartTime
  /\ requestTimestamps = <<>>
  /\ lastRequestTime = 0
  /\ callers = [p \in Callers |-> [st |-> "idle", wake |-> 0]]
  /\ calls = <<NoCall, NoCall>>
  /\ permits = <<>>
  /\ ReqInit
  /\ EditInit

\* a caller runs checkRateLimit() and awaits the promise it returns
RLCall(p) ==
  /\ callers[p].st = "idle"
  /\ Len(permits) + Cardinality({q \in Callers : callers[q].st = "waiting"}) < MaxCalls
  /\ LET r == checkRateLimit(now, requestTimestamps, lastRequestTime)
     IN /\ requestTimestamps' = r.ts
        /\ lastRequestTime' = r.last
        /\ callers' = [callers EXCEPT ![p] =
                         IF r.kind = "throttled"
                           THEN [st |-> "waiting", wake |-> now + r.waitTime]
                           ELSE [st |-> "idle", wake |-> 0]]
        /\ calls' = <<calls[2], CallRecord(p, now, r, requestTimestamps)>>
        /\ permits' = IF r.kind = "granted" THEN Append(permits, now) ELSE permits
  /\ UNCHANGED <<now, reqvars, editvars>>

\* the setTimeout of a throttled call fires: its promise resolves
RLWake(p) ==
  /\ callers[p].st = "waiting"
  /\ now >= callers[p].wake
  /\ callers' = [callers EXCEPT ![p] = [st |-> "idle", wake |-> 0]]
  /\ calls' = [i \in 1..2 |->
                 IF calls[i].caller = p /\ calls[i].kind = "throttled" /\ calls[i].res = -1
                   THEN [calls[i] EXCEPT !.res = now]
                   ELSE calls[i]]
  /\ permits' = Append(permits, now)
  /\ UNCHANGED <<now, requestTimestamps, lastRequestTime, reqvars, editvars>>

\* time passes
RLTick ==
  /\ now + TickMs <= StartTime + MaxElapsed
  /\ now' = now + TickMs
  /\ UNCHANGED <<requestTimestamps, lastRequestTime, callers, calls, permits, reqvars, editvars>>

RLNext ==
  \/ \E p \in Callers : RLCall(p)
  \/ \E p \in Callers : RLWake(p)
  \/ RLTick

SpecRL == RLInit /\ [][RLNext]_vars

(***************************************************************************)
(* SpecWin: the limiter called by one caller for longer than its window.   *)
(***************************************************************************)
\* clock granularity of SpecWin, above the minimum delay
WinStep == 6000
\* the limiter is observed for this long, more than RATE_LIMIT_WINDOW
WinElapsed == 66000

\* time passes
WinTick ==
  /\ now + WinStep <= StartTime + WinElapsed
  /\ now' = now + WinStep
  /\ UNCHANGED <<requestTimestamps, lastRequestTime, callers, calls, permits, reqvars, editvars>>

\* the caller runs checkRateLimit() and awaits the promise it returns
WinCall ==
  /\ callers[1].st = "idle"
  /\ LET r == checkRateLimit(now, requestTimestamps, lastRequestTime)
     IN /\ requestTimestamps' = r.ts
        /\ lastRequestTime' = r.last
        /\ callers' = [callers EXCEPT ![1] =
                         IF r.kind = "throttled"
                           THEN [st |-> "waiting", wake |-> now + r.waitTime]
                           ELSE [st |-> "idle", wake |-> 0]]
        /\ calls' = <<calls[2], CallRecord(1, now, r, requestTimestamps)>>
  /\ UNCHANGED <<now, permits, reqvars, editvars>>

\* the setTimeout of the throttled call fires: its promise resolves
WinWake ==
  /\ callers[1].st = "waiting"
  /\ now >= callers[1].wake
  /\ callers' = [callers EXCEPT ![1] = [st |-> "idle", wake |-> 0]]
  /\ calls' = [i \in 1..2 |->
                 IF calls[i].kind = "throttled" /\ calls[i].res = -1
                   THEN [calls[i] EXCEPT !.res = now]
                   ELSE calls[i]]
  /\ UNCHANGED <<limvars, permits, reqvars, editvars>>

WinNext ==
  \/ WinCall
  \/ WinWake
  \/ WinTick

SpecWin == RLInit /\ [][WinNext]_vars

(***************************************************************************)
(* SpecEdit: one invocation of the edit endpoint POST                      *)
(* (src/src/app/api/cipher/route.ts).                                      *)
(***************************************************************************)
\* the ids of the markers /\[(\d+)\]/g of a text, in order, repeats kept
DigitMarkerIds(text) ==
  LET idx == [i \in 1..Len(text) |-> i]
      hits == SelectSeq(idx, LAMBDA i : text[i].k = "c" /\ IsDigits(text[i].body))
  IN [k \in 1..Len(hits) |-> text[hits[k]].body]

\* [...new Set(ids)]: each id once, in the order of its first occurrence
UniqueIds(ids) ==
  LET idx == [i \in 1..Len(ids) |-> i]
      firsts == SelectSeq(idx, LAMBDA i : \A j \in 1..(i - 1) : ids[j] # ids[i])
  IN [k \in 1..Len(firsts) |-> ids[firsts[k]]]

extractSources(text) ==
  LET uniqueCitations == UniqueIds(DigitMarkerIds(text))
  IN [k \in 1..Len(uniqueCitations) |-> [id |-> uniqueCitations[k], title |-> "", url |-> ""]]

\* ids.join(', ')
RECURSIVE JoinIds(_)
JoinIds(ids) ==
  IF ids = <<>> THEN ""
  ELSE IF Len(ids) = 1 THEN ids[1]
  ELSE ids[1] \o ", " \o JoinIds(Tail(ids))

\* editedContent.replace(/\[(\d+)\]/g, ...): every marker [n] becomes an
\* anchor whose text is [n]
EditAnchor(tk) ==
  IF tk.k = "c" /\ IsDigits(tk.body)
    THEN [k |-> "a", href |-> "#", title |-> "Source " \o tk.body, id |-> tk.body,
          body |-> "<a href=\"#\" class=\"citation\" data-preview=\"Source " \o tk.body
                   \o "\" title=\"Source " \o tk.body \o "\">[" \o tk.body \o "]</a>"]
  ELSE [k |-> tk.k, href |-> "", title |-> "", id |-> tk.body,
        body |-> IF tk.k = "c" THEN "[" \o tk.body \o "]" ELSE ""]

\* the ids formattedContent.match(/\[(\d+)\]/g) finds: the texts of the anchors
FormattedMarkerIds(formatted) ==
  LET idx == [i \in 1..Len(formatted) |-> i]
      hits == SelectSeq(idx, LAMBDA i : formatted[i].k = "a")
  IN [k \in 1..Len(hits) |-> formatted[hits[k]].id]

\* the test of processEdit that lets every edited text through
InvalidSourcesNone(newSources, existing) == <<>>

\* newSources.filter(s => !existingSources.some(es => es.id === s.id))
InvalidSources(newSources, existing) ==
  SelectSeq(newSources, LAMBDA s : \A e \in 1..Len(existing) : existing[e].id # s.id)

processEdit(editedContent, existing) ==
  LET newSources == extractSources(editedContent)
      invalidSources == InvalidSources(newSources, existing)
      formattedContent == [i \in 1..Len(editedContent) |-> EditAnchor(editedContent[i])]
      uniqueCitations == UniqueIds(FormattedMarkerIds(formattedContent))
  IN IF Len(invalidSources) > 0
       THEN EditError(400, "Invalid citations used: ["
                           \o JoinIds([k \in 1..Len(invalidSources) |-> invalidSources[k].id])
                           \o "]")
     ELSE [status |-> 200, error |-> "", details |-> "",
           editedContent |-> formattedContent,
           hasMetadata |-> TRUE,
           metadata |-> [citationsUsed |-> Len(uniqueCitations),
                         sourceUsagePercent |->
                           RoundPercent(Len(uniqueCitations), Len(existing))]]

\* ---- inputs of the edit endpoint ---------------------------------------
EditRequests == {undefined, "  ", "fix the typo"}

EditContents ==
  { <<>>,
    << W(20, 5) >>,
    << W(20, 5), C("1"), C("2") >>,
    << W(20, 5), C("1"), C("2"), C("1"), C("3") >>,
    << W(20, 5) >> \o [i \in 1..10 |-> C(ToString(i))],
    << W(20, 5), C("1"), C("2, 4") >>,
    << W(10, 5), C("7") >>,
    << W(20, 5), C("1-3") >> }

\* what the LLM call of the edit endpoint may end in: an edit, an abort by
\* the 25 s timer, an error of the client, an empty response, a response that
\* is no JSON and a JSON without editedContent
EditOutcome(kind, text, message, status) ==
  [kind |-> kind, text |-> text, message |-> message, status |-> status]

EditOutcomes ==
  { EditOutcome("edit", t, "", 0) :
      t \in { << W(20, 5) >>,
              << W(21, 5), C("1") >>,
              << W(20, 5), C("1"), C("1"), C("2") >>,
              << W(20, 5), C("99") >>,
              << W(20, 5), C("1"), C("99"), C("98"), C("99") >>,
              << W(20, 5), C("1"), C("2, 99") >>,
              << W(20, 5), C("1"), C("97-99") >>,
              << W(5, 5), C("1"), C("2"), C("3") >> } }
  \cup { EditOutcome("abort", <<>>, "This operation was aborted", 0),
         EditOutcome("threw", <<>>, "fetch failed", 0),
         EditOutcome("threw", <<>>, "429 Too Many Requests", 429),
         EditOutcome("empty", <<>>, "", 0),
         EditOutcome("malformed", <<>>, "", 0),
         EditOutcome("noEditedContent", <<>>, "", 0) }

\* POST up to the await of the LLM call
EditReceive(req, cur) ==
  /\ epc = "idle"
  /\ userRequest' = req
  /\ currentContent' = cur
  /\ IF req = undefined \/ Trim(req) = ""
       THEN /\ editResponse' = EditError(400, "Please provide a valid edit request")
            /\ epc' = "done"
            /\ UNCHANGED existingSources
     ELSE IF cur = <<>>
       THEN /\ editResponse' = EditError(400, "No content provided to edit")
            /\ epc' = "done"
            /\ UNCHANGED existingSources
     ELSE /\ existingSources' = extractSources(cur)
          /\ epc' = "llm"
          /\ UNCHANGED editResponse
  /\ UNCHANGED <<limvars, rlonly, reqvars, retry>>

\* POST from the LLM's answer to the response
EditGenerate(out) ==
  /\ epc = "llm"
  /\ epc' = "done"
  /\ lastCall' = [ev |-> "llm", who |-> "cipher", kind |-> out.kind, section |-> 0,
                  attempt |-> 1, context |-> currentContent, text |-> out.text,
                  message |-> out.message]
  /\ llmCalls' = llmCalls + 1
  /\ editResponse' =
       CASE out.kind = "edit" -> processEdit(out.text, existingSources)
         [] out.kind = "abort" -> EditError(504, "Request timed out. Please try again.")
         [] out.kind = "threw" -> EditCaught(out.status, out.message)
         [] out.kind = "empty" -> EditCaught(0, "Empty response from AI")
         [] OTHER -> EditError(500, "Failed to process the edit. Please try again.")
  /\ UNCHANGED <<limvars, rlonly, userRequest, currentContent, existingSources, retry,
                 pc, isDeepResearch, query, tier, allResults, searchResults, sources,
                 pending, wake, content, chunk, response, log>>

EditNext ==
  \/ \E req \in EditRequests, cur \in EditContents : EditReceive(req, cur)
  \/ \E out \in EditOutcomes : EditGenerate(out)

\* the edit endpoint never calls the limiter, which stays as it starts
SpecEdit == RLInit /\ [][EditNext]_vars

(***************************************************************************)
(* SpecRetry: one invocation of the edit endpoint variant whose LLM call   *)
(* goes through retryWithTimeout (src/unnamed/part_006).                   *)
(***************************************************************************)
MAX_RETRIES == 2
INITIAL_TIMEOUT == 15000

\* clock granularity while a call is awaited, and how long it is observed
RetryTickMs == 7500
RetryElapsed == 75000

\* the operation rejected: the provider or the network raised an error
Rejected(out) == out.kind \in {"threw", "abort"}

\* the catch blocks of POST around retryWithTimeout
RetryFailure(out) ==
  IF out.kind = "abort" \/ Includes(out.message, "aborted")
    THEN EditError(504, "Request timed out. Please try again.")
  ELSE IF Includes(out.message, "429") \/ Includes(out.message, "rate")
    THEN EditError(429, "Too many requests. Please wait a moment and try again.")
  ELSE EditCaught(out.status, out.message)

\* retryWithTimeout(operation, timeoutMs, retries) up to its await: a new
\* controller, its timer, and the operation invoked
StartAttempt(timeoutMs, retries, invocations) ==
  [retries |-> retries, timeoutMs |-> timeoutMs, invocations |-> invocations + 1,
   deadline |-> now + timeoutMs, aborted |-> FALSE]

\* POST calls retryWithTimeout(..., INITIAL_TIMEOUT, MAX_RETRIES)
RetryInvoke ==
  /\ epc = "llm"
  /\ epc' = "pending"
  /\ retry' = StartAttempt(INITIAL_TIMEOUT, MAX_RETRIES, 0)
  /\ llmCalls' = llmCalls + 1
  /\ UNCHANGED <<limvars, rlonly, userRequest, currentContent, existingSources, editResponse,
                 pc, isDeepResearch, query, tier, allResults, searchResults, sources,
                 pending, wake, content, chunk, response, log, lastCall>>

\* the awaited operation settles: its result goes on to the response; its
\* error starts the next attempt while retries are left and is thrown to the
\* catch blocks of POST otherwise
RetrySettle(out) ==
  /\ epc = "pending"
  /\ lastCall' = [ev |-> "llm", who |-> "cipher", kind |-> out.kind, section |-> 0,
                  attempt |-> retry.invocations, context |-> currentContent,
                  text |-> out.text, message |-> out.message]
  /\ IF Rejected(out) /\ retry.retries > 0
       THEN /\ retry' = StartAttempt((retry.timeoutMs * 3) \div 2, retry.retries - 1,
                                     retry.invocations)
            /\ llmCalls' = llmCalls + 1
            /\ UNCHANGED <<epc, editResponse>>
     ELSE /\ retry' = [retry EXCEPT !.deadline = 0]
          /\ epc' = "done"
          /\ UNCHANGED llmCalls
          /\ editResponse' =
               CASE Rejected(out) -> RetryFailure(out)
                 [] out.kind = "edit" -> processEdit(out.text, existingSources)
                 [] out.kind = "empty" -> EditCaught(0, "Empty response from AI")
                 [] OTHER -> EditError(500, "Failed to process the edit. Please try again.")
  /\ UNCHANGED <<limvars, rlonly, userRequest, currentContent, existingSources,
                 pc, isDeepResearch, query, tier, allResults, searchResults, sources,
                 pending, wake, content, chunk, response, log>>

\* the timer of the running attempt fires: controller.abort()
RetryTimeout ==
  /\ epc = "pending"
  /\ retry.deadline # 0
  /\ now >= retry.deadline
  /\ retry' = [retry EXCEPT !.aborted = TRUE, !.deadline = 0]
  /\ UNCHANGED <<limvars, rlonly, reqvars, epc, userRequest, currentContent,
                 existingSources, editResponse>>

\* time passes while the operation is awaited; a timer that is due fires first
RetryTick ==
  /\ epc = "pending"
  /\ ~(retry.deadline # 0 /\ now >= retry.deadline)
  /\ now + RetryTickMs <= StartTime + RetryElapsed
  /\ now' = now + RetryTickMs
  /\ UNCHANGED <<requestTimestamps, lastRequestTime, rlonly, reqvars, editvars>>

RetryNext ==
  \/ \E req \in EditRequests, cur \in EditContents : EditReceive(req, cur)
  \/ RetryInvoke
  \/ \E out \in EditOutcomes : RetrySettle(out)
  \/ RetryTimeout
  \/ RetryTick

SpecRetry == RLInit /\ [][RetryNext]_vars

(***************************************************************************)
(* Claims about the limiter                                                *)
(***************************************************************************)
\* a call of the history that was let through (its promise resolved)
Resolved(c) == c.kind \in {"granted", "throttled"} /\ c.res >= 0

\* C1: in any 60-second window at most MAX_REQUESTS_PER_WINDOW callers are
\* let through to a search request, counting both the callers permitted at
\* once and those permitted after the throttling delay.
C1_AtMostNPerWindow ==
  \A j \in 1..Len(permits) :
    Cardinality({i \in 1..j : permits[j] - permits[i] < RATE_LIMIT_WINDOW})
      <= MAX_REQUESTS_PER_WINDOW

\* C2: of two consecutive checkRateLimit calls made less than
\* MIN_DELAY_BETWEEN_REQUESTS apart, the second one's promise resolves no
\* earlier than MIN_DELAY_BETWEEN_REQUESTS after the first one's resolved.
C2_SecondResolvesAfterDelay ==
  (/\ Resolved(calls[1]) /\ Resolved(calls[2])
   /\ calls[2].t - calls[1].t < MIN_DELAY_BETWEEN_REQUESTS)
  => calls[2].res >= calls[1].res + MIN_DELAY_BETWEEN_REQUESTS

\* C3: a checkRateLimit call made while the pruned window already holds
\* MAX_REQUESTS_PER_WINDOW timestamps fails with the 'Rate limit exceeded'
\* error that carries the wait until the oldest entry expires, and the caller
\* is not let through.
C3_FullWindowFailsFast ==
  \A i \in 1..2 :
    (calls[i].kind # "none" /\ calls[i].held >= MAX_REQUESTS_PER_WINDOW)
    => /\ calls[i].kind = "denied"
       /\ calls[i].res = -1
       /\ calls[i].message =
            "Rate limit exceeded. Please wait "
            \o ToString(Ceil(RATE_LIMIT_WINDOW - (calls[i].t - calls[i].oldest), 1000))
            \o " seconds before trying again."

(***************************************************************************)
(* Claims about the research endpoint                                      *)
(***************************************************************************)
Done == pc = "done"
Succeeded == pc = "done" /\ response.status = 200

\* the acquires of searchWithPriority that the limiter denied
TierDenials ==
  {i \in 1..Len(log) : log[i].ev = "acquire" /\ log[i].who = "tier" /\ log[i].kind = "denied"}

\* C4: when the limiter denies the acquire of a tier of searchWithPriority,
\* the invocation ends with status 429 and the user-facing message is the
\* limiter's, which carries the wait time; it is not turned into another
\* failure.
C4_TierDenialAnswered429 ==
  (Done /\ TierDenials # {})
  => /\ response.status = 429
     /\ \E i \in TierDenials : response.error = log[i].message

\* C5: no two sources of the returned list carry the same id, also when
\* hits without title or url were dropped and when the citation lookups and
\* the backup search appended sources.
C5_ReturnedIdsUnique ==
  Succeeded
  => \A i, j \in 1..Len(response.sources) :
       response.sources[i].id = response.sources[j].id => i = j

\* C6: in a successful result, of quick or deep mode, every marker [n] of the
\* rendered text whose n is the id of a returned source is an anchor that
\* points at the url of a returned source with that id.
C6_KnownMarkersAreAnchors ==
  Succeeded
  => LET main == SplitRefs(content)
     IN \A i \in 1..Len(main) :
          (/\ main[i].k = "c"
           /\ \E s \in 1..Len(response.sources) : response.sources[s].id = main[i].body)
          => /\ response.content[i].k = "a"
             /\ \E s \in 1..Len(response.sources) :
                  /\ response.sources[s].id = main[i].body
                  /\ response.content[i].href = response.sources[s].url

\* C7: in deep mode the prompt sent to the LLM for a section after the first
\* contains the accepted text of the section before it.
C7_PromptCarriesPreviousSection ==
  (lastCall.ev = "llm" /\ lastCall.section >= 2)
  => lastCall.context = chunk.allContent[lastCall.section - 1]

\* the quick-mode call returned a text below the word floor
QuickBelowFloor ==
  /\ Done /\ ~isDeepResearch
  /\ lastCall.ev = "llm" /\ lastCall.kind = "text"
  /\ lastCall.text # <<>>
  /\ WordCount(lastCall.text) < 900

LastCallAcceptable ==
  /\ lastCall.kind = "text"
  /\ lastCall.text # <<>>
  /\ WordCount(SplitRefs(lastCall.text)) >= <<200, 1200, 300, 200, 100>>[lastCall.section]

\* C10: in generateDeepResearch a section is attempted at most 3 times and is
\* accepted on the first attempt that returns non-empty text meeting its
\* minimum; when its third attempt fails the generation fails, no LLM call is
\* made for a later section and no partial report is returned.
C10_ThreeAttemptsThenFail ==
  (lastCall.ev = "llm" /\ lastCall.section >= 1)
  => /\ lastCall.attempt <= 3
     /\ LastCallAcceptable
          => /\ chunk.i >= lastCall.section
             /\ chunk.allContent[lastCall.section] = SplitRefs(lastCall.text)
     /\ (~LastCallAcceptable /\ lastCall.attempt < 3)
          => /\ chunk.i = lastCall.section - 1
             /\ chunk.attempts = lastCall.attempt
             /\ pc \in {"chunk", "chunkBackoff"}
     /\ (~LastCallAcceptable /\ lastCall.attempt >= 3)
          => /\ Done
             /\ chunk.i = lastCall.section - 1
             /\ response.status # 200
             /\ response.content = <<>>
             /\ response.sources = <<>>

C10_Witness ==
  /\ Done /\ isDeepResearch
  /\ lastCall.section = 3
  /\ lastCall.attempt = 3
  /\ ~LastCallAcceptable
  /\ Len(chunk.allContent) = 2

(***************************************************************************)
(* Claims about the edit endpoint                                          *)
(***************************************************************************)
\* the edit endpoint answered a call in which the LLM returned an edit
EditProcessed == epc = "done" /\ lastCall.who = "cipher" /\ lastCall.kind = "edit"

\* the known id set of an edit: the ids of the sources of the current content
KnownEditIds == {existingSources[i].id : i \in 1..Len(existingSources)}

\* the ids of the markers [n] of the edited text that are not known, each
\* once, in the order of their first occurrence
UnknownSingleIds ==
  UniqueIds(SelectSeq(DigitMarkerIds(lastCall.text), LAMBDA id : id \notin KnownEditIds))

\* C11: an edited text with a marker [n] whose n is not in the known id set
\* is answered with status 400 and the invalid-citation error that lists
\* exactly the offending ids, and the response carries no edited content.
C11_UnknownIdRejected ==
  (EditProcessed /\ UnknownSingleIds # <<>>)
  => /\ editResponse.status = 400
     /\ editResponse.error = "Invalid citations used: [" \o JoinIds(UnknownSingleIds) \o "]"
     /\ editResponse.editedContent = <<>>
     /\ ~editResponse.hasMetadata

C11_Witness ==
  /\ EditProcessed
  /\ Len(existingSources) = 10
  /\ UnknownSingleIds = <<"99", "98">>
  /\ editResponse.error = "Invalid citations used: [99, 98]"

\* the ids the markers of the edited text stand for once lists and ranges
\* are expanded, that are not known
UnknownExpandedIds ==
  SelectSeq(ExpandedCitations(lastCall.text), LAMBDA id : id \notin KnownEditIds)

\* C12: an unknown id inside a list marker [n, m] or a range marker [n-m] of
\* the edited text causes the rejection with status 400, as an unknown single
\* marker does.
C12_UnknownIdInListOrRangeRejected ==
  (EditProcessed /\ UnknownExpandedIds # <<>>)
  => /\ editResponse.status = 400
     /\ editResponse.editedContent = <<>>

(***************************************************************************)
(* Claims about citations and their metadata                               *)
(***************************************************************************)
\* the ids of the sources of the response
ReturnedIds == {response.sources[i].id : i \in 1..Len(response.sources)}

\* the quick-mode call returned a text that clears the floors of length
QuickTextAcceptable ==
  /\ Done /\ ~isDeepResearch
  /\ lastCall.ev = "llm" /\ lastCall.kind = "text"
  /\ TextLength(lastCall.text) >= 500
  /\ WordCount(lastCall.text) >= 900
  /\ TextLength(SplitRefs(lastCall.text)) >= 100

\* C13: in initial generation a marker [n] whose n is the id of no returned
\* source stays in the rendered text as the literal [n] and is no anchor, and
\* a text that clears the floors of length is answered with success whether
\* or not it holds such markers.
C13_UnknownMarkerStaysLiteral ==
  /\ Succeeded
     => LET main == SplitRefs(content)
        IN \A i \in 1..Len(main) :
             (main[i].k = "c" /\ IsDigits(main[i].body) /\ main[i].body \notin ReturnedIds)
             => /\ response.content[i].k = "c"
                /\ response.content[i].body = "[" \o main[i].body \o "]"
                /\ response.content[i].href = ""
  /\ QuickTextAcceptable => response.status = 200

C13_Witness ==
  /\ Succeeded /\ ~isDeepResearch
  /\ Len(content) = 4
  /\ content[4].body = "99"
  /\ response.content[4].body = "[99]"
  /\ response.content[3].k = "a"

\* C14: citationsUsed of a successful response is the number of ids the
\* markers of the report stand for once lists [n, m] and ranges [n-m] are
\* expanded: [1], [2, 4], [6-8] give 6.
C14_CitationsUsedCountsExpandedIds ==
  Succeeded => response.metadata.citationsUsed = Len(ExpandedCitations(content))

\* the ids of the returned sources that the report cites with a marker [n]
DistinctCited == {id \in ReturnedIds : \E i \in 1..Len(content) :
                    content[i].k = "c" /\ content[i].body = id}

\* C15: sourceUsagePercent of a successful response with at least one source
\* is round(distinct cited source ids / source count x 100), and lies
\* between 0 and 100.
C15_UsagePercentOfDistinctSources ==
  (Succeeded /\ Len(response.sources) > 0)
  => /\ response.metadata.sourceUsagePercent =
          RoundPercent(Cardinality(DistinctCited), Len(response.sources))
     /\ response.metadata.sourceUsagePercent >= 0
     /\ response.metadata.sourceUsagePercent <= 100

\* C16: a successful response with no sources has sourceUsagePercent 0.
C16_ZeroSourcesGiveZeroPercent ==
  (Succeeded /\ Len(response.sources) = 0)
  => response.metadata.sourceUsagePercent = 0

(***************************************************************************)
(* Claims about searchWithPriority and the formatting of sources           *)
(***************************************************************************)
\* the tiers whose search request was issued
TiersSearched ==
  {log[i].section : i \in {j \in 1..Len(log) : log[j].ev = "search" /\ log[j].who = "tier"}}

\* the tiers whose search request failed
TiersFailed ==
  {log[i].section : i \in {j \in 1..Len(log) : /\ log[j].ev = "search"
                                               /\ log[j].who = "tier"
                                               /\ log[j].kind = "failed"}}

\* searchWithPriority has returned its list to POST
SearchReturned ==
  /\ ~isDeepResearch
  /\ TiersSearched # {}
  /\ pc \notin {"tierAcquire", "tierWait", "tierSearch"}
  /\ TierDenials = {}

\* the links of the results of the tiers
GatheredLinks == {allResults[i].link : i \in 1..Len(allResults)}

\* C17: the list searchWithPriority returns holds each link at most once,
\* whatever duplicates the tiers returned within one tier or across tiers.
C17_ReturnedLinksUnique ==
  \A i, j \in 1..Len(searchResults) :
    searchResults[i].link = searchResults[j].link => i = j

C17_Witness ==
  /\ SearchReturned
  /\ TiersSearched = {1, 2, 3}
  /\ Len(allResults) = 9
  /\ Len(searchResults) = 4

\* C18: when searchWithPriority returns, every tier after which fewer than
\* minSources results were gathered was followed by the next tier, so a list
\* gathered short of minSources has seen all three tiers; and when the results
\* of the tiers hold at least minSources different links the returned list has
\* at least minSources entries.
C18_EscalatesUntilMinSources ==
  SearchReturned
  => /\ \A k \in TiersSearched : \A j \in 1..k : j \in TiersSearched
     /\ Len(allResults) < 10 => TiersSearched = {1, 2, 3}
     /\ Cardinality(GatheredLinks) >= 10 => Len(searchResults) >= 10

C18_Witness ==
  /\ SearchReturned
  /\ TiersSearched = {1, 2}
  /\ Len(allResults) = 13
  /\ Len(searchResults) = 13

\* the request ended with the failure of the search
SearchUnavailable ==
  /\ Done
  /\ \/ StartsWith(response.error, "No relevant sources found")
     \/ response.error = "Failed to search for sources. Please try again."

\* C19: a tier whose search request fails adds no result and the next tier
\* runs; the results of the other tiers are returned; and the request ends
\* with the failure of the search only when no tier returned a result.
C19_TierFailureNotFatal ==
  /\ (~isDeepResearch /\ Len(log) > 0 /\ log[Len(log)].ev = "search"
      /\ log[Len(log)].who = "tier" /\ log[Len(log)].kind = "failed"
      /\ log[Len(log)].section < 3 /\ Len(allResults) < 10)
     => pc = "tierAcquire" /\ tier = log[Len(log)].section + 1
  /\ (SearchReturned /\ allResults # <<>>) => ~SearchUnavailable
  /\ SearchUnavailable => allResults = <<>>

\* C20: the sources POST formats from the list searchWithPriority returned
\* are what formatting that list again gives, and each carries as id the
\* index + 1 of its hit in that list and the hit's title, link, snippet
\* and favicon.
C20_FormattingDeterministic ==
  LET formatted == FormatSources(searchResults)
  IN /\ Len(sources) >= Len(formatted)
     /\ \A s \in 1..Len(formatted) :
          LET i == ToNumber(sources[s].id)
          IN /\ sources[s] = formatted[s]
             /\ i \in 1..Len(searchResults)
             /\ \A r \in 1..(s - 1) : ToNumber(sources[r].id) < i
             /\ sources[s].title = searchResults[i].title
             /\ sources[s].url = searchResults[i].link
             /\ sources[s].snippet = searchResults[i].snippet
             /\ sources[s].favicon = getFavicon(searchResults[i])

C20_Witness ==
  /\ Len(searchResults) = 3
  /\ Len(sources) >= 2
  /\ sources[1].id = "2"
  /\ sources[2].id = "3"
  /\ sources[2].favicon = "https://img.org/3.png"
  /\ sources[1].favicon = "https://icons.duckduckgo.com/ip3/site2.org.ico"

(***************************************************************************)
(* Claims about the outcome of an invocation                               *)
(***************************************************************************)
\* the response of a handler that returned: a complete result or an error
TerminalOutcome ==
  \/ /\ response.status = 200
     /\ response.error = ""
     /\ response.content # <<>>
     /\ response.metadata.sourceCount = Len(response.sources)
     /\ response.metadata.wordCount = WordCount(content)
  \/ /\ response.status \in {400, 429, 500}
     /\ response.error # ""
     /\ response.content = <<>>
     /\ response.sources = <<>>

\* C21: every research invocation ends in exactly one terminal outcome,
\* either a complete result carrying content, sources and metadata together
\* or an error response; nothing is returned before the handler ends, the
\* response does not change once given, and an error response carries no
\* content and no source list.
C21_OneTerminalOutcome ==
  [][/\ pc' # "done" => response' = NoResponse
     /\ pc' = "done" => TerminalOutcome'
     /\ pc = "done" => (pc' = "done" /\ response' = response)]_vars

C21_Witness ==
  /\ Done /\ ~isDeepResearch
  /\ response.status = 500
  /\ Len(sources) >= 2
  /\ lastCall.kind = "text" /\ lastCall.text # <<>>
  /\ response.sources = <<>> /\ response.content = <<>>

\* the LLM client threw in the request that has ended
ProviderThrew == lastCall.ev = "llm" /\ lastCall.kind = "threw"

\* C22: for every failure of the research and edit endpoints the user-facing
\* error payload holds only the message of the failure's kind, never the
\* internal cause verbatim: not the raw error message of the upstream
\* provider and not a stack trace.
C22_NoInternalCauseInPayload ==
  /\ (Done /\ ProviderThrew)
       => /\ ~Includes(response.error, lastCall.message)
          /\ ~Includes(response.details, lastCall.message)
  /\ (epc = "done" /\ ProviderThrew)
       => /\ ~Includes(editResponse.error, lastCall.message)
          /\ ~Includes(editResponse.details, "    at ")

\* the request's query is missing, empty or only white space
InvalidQuery == query = undefined \/ Trim(query) = ""

\* C23: a research request with a missing, empty or whitespace-only query,
\* in quick or deep mode, is answered with status 400 before any search or
\* LLM call is made.
C23_InvalidInputAnswered400 ==
  (pc # "idle" /\ InvalidQuery)
  => /\ Done
     /\ response.status = 400
     /\ log = <<>>
     /\ llmCalls = 0

(***************************************************************************)
(* Claims about timeouts                                                   *)
(***************************************************************************)
\* C24: every LLM call is bounded by its timeout: a call that has not
\* completed when the timeout expires is aborted and counted as a failed
\* attempt, so that no call is still awaited after its timer fired and no
\* result of such a call is used; and the operation is invoked at most
\* MAX_RETRIES + 1 = 3 times.
C24_CallsBoundedByTimeout ==
  /\ retry.invocations <= MAX_RETRIES + 1
  /\ ~(epc = "pending" /\ retry.aborted)
  /\ (epc = "done" /\ retry.aborted) => editResponse.status # 200

(***************************************************************************)
(* Claims about the limiter in front of the search requests                *)
(***************************************************************************)
\* the search requests of the invocation, as places of the log
SearchRequests == {i \in 1..Len(log) : log[i].ev = "search"}

\* the request at place i of the log follows an acquire made for it that let
\* the caller through, at once or after the throttling delay
AcquiredFor(i) ==
  /\ i > 1
  /\ log[i - 1].ev = "acquire"
  /\ log[i - 1].who = log[i].who
  /\ log[i - 1].kind \in {"granted", "throttled"}

\* C25: every outbound search-provider request of a research invocation,
\* each tier of quick mode and each source-fetching request of deep mode, is
\* preceded by a rate-limiter acquire made for that request.
C25_SearchPrecededByAcquire ==
  \A i \in SearchRequests : AcquiredFor(i)

\* the two most recent calls were both throttled and both callers have been
\* released
BothThrottledReleased ==
  /\ calls[1].kind = "throttled" /\ calls[1].res >= 0
  /\ calls[2].kind = "throttled" /\ calls[2].res >= 0

\* C26: admission is serialized across concurrent invocations: callers that
\* call checkRateLimit less than MIN_DELAY_BETWEEN_REQUESTS after the last
\* recorded request are released one at a time, never two of them at the
\* same instant or less than MIN_DELAY_BETWEEN_REQUESTS apart.
C26_ThrottledReleasedApart ==
  BothThrottledReleased
  => \/ calls[2].res - calls[1].res >= MIN_DELAY_BETWEEN_REQUESTS
     \/ calls[1].res - calls[2].res >= MIN_DELAY_BETWEEN_REQUESTS

\* the step adds an entry to requestTimestamps
AddsTimestamp ==
  \E i \in 1..Len(requestTimestamps') :
    Cardinality({j \in 1..Len(requestTimestamps') : requestTimestamps'[j] = requestTimestamps'[i]})
      > Cardinality({j \in 1..Len(requestTimestamps) : requestTimestamps[j] = requestTimestamps'[i]})

\* the step is a checkRateLimit call
IsCall == calls'[1] = calls[2] /\ calls'[2].t = now /\ now' = now

\* C27: a checkRateLimit call that fails with the rate-limit error records
\* no new timestamp and leaves lastRequestTime unchanged; a timestamp is
\* added, and lastRequestTime moved, only by a call that grants permission.
C27_DenialRecordsNothing ==
  [][/\ (IsCall /\ calls'[2].kind = "denied")
          => /\ ~AddsTimestamp
             /\ lastRequestTime' = lastRequestTime
     /\ (AddsTimestamp \/ lastRequestTime' # lastRequestTime)
          => /\ IsCall
             /\ calls'[2].kind = "granted"
             /\ lastRequestTime' = now
             /\ requestTimestamps' = Append(PrunedWindow(now, requestTimestamps), now)]_vars

C27_Witness ==
  /\ calls[2].kind = "denied"
  /\ calls[1].kind = "granted"
  /\ Len(requestTimestamps) = MAX_REQUESTS_PER_WINDOW
  /\ lastRequestTime = calls[1].t
  /\ now > lastRequestTime

\* C29: after any sequence of checkRateLimit calls requestTimestamps holds at
\* most MAX_REQUESTS_PER_WINDOW = 5 entries, every entry is at most
\* lastRequestTime, and after each call every remaining entry is less than
\* RATE_LIMIT_WINDOW = 60 s older than the time of that call.
C29_WindowBounded ==
  /\ Len(requestTimestamps) <= MAX_REQUESTS_PER_WINDOW
  /\ \A i \in 1..Len(requestTimestamps) : requestTimestamps[i] <= lastRequestTime
  /\ calls[2].kind # "none"
       => \A i \in 1..Len(requestTimestamps) :
            calls[2].t - requestTimestamps[i] < RATE_LIMIT_WINDOW

C29_Witness ==
  /\ calls[1].kind = "denied"
  /\ calls[2].kind = "granted"
  /\ Len(requestTimestamps) = MAX_REQUESTS_PER_WINDOW
  /\ calls[2].t - calls[1].oldest >= RATE_LIMIT_WINDOW

(***************************************************************************)
(* Claims about the order of the tiers                                     *)
(***************************************************************************)
\* the tiers of the acquires and requests of searchWithPriority, in the
\* order in which they were made
TierSteps(l) ==
  LET idx == [i \in 1..Len(l) |-> i]
      hits == SelectSeq(idx, LAMBDA i : l[i].who = "tier")
  IN [k \in 1..Len(hits) |-> l[hits[k]].section]

\* the tiers of the search requests alone
TierRequests(l) ==
  LET idx == [i \in 1..Len(l) |-> i]
      hits == SelectSeq(idx, LAMBDA i : l[i].who = "tier" /\ l[i].ev = "search")
  IN [k \in 1..Len(hits) |-> l[hits[k]].section]

\* C28: within one invocation of searchWithPriority the tiers are issued one
\* after the other in the order academic, general, fallback, each at most
\* once; the general and the fallback tier are entered only while fewer than
\* minSources results are gathered, so that once minSources results are
\* gathered no further tier request is made.
C28_TiersInPriorityOrder ==
  [][LET requests == TierRequests(log')
         steps == TierSteps(log')
     IN /\ requests = [k \in 1..Len(requests) |-> k]
        /\ Len(requests) <= 3
        /\ \A k \in 1..(Len(steps) - 1) : steps[k] <= steps[k + 1]
        /\ Len(steps) > Len(TierSteps(log))
             => IF steps[Len(steps)] = 1 THEN allResults = <<>>
                ELSE Len(allResults) < QUICK_RESEARCH_MIN_SOURCES]_vars

C28_Witness ==
  /\ SearchReturned
  /\ TiersSearched = {1}
  /\ Len(allResults) = QUICK_RESEARCH_MIN_SOURCES
  /\ pc = "done"

(***************************************************************************)
(* Claims about the length of the deep-mode report                         *)
(***************************************************************************)
\* all five sections have been accepted
AllSectionsAccepted == isDeepResearch /\ chunk.i = 5 /\ Len(chunk.allContent) = 5

\* C30: in generateDeepResearch, whenever all five sections have been
\* accepted against their minimums, the word count of the combined report
\* with its section headers is at least 2000, so the failure 'Total content
\* too short' never occurs.
C30_TotalNeverTooShort ==
  /\ AllSectionsAccepted => WordCount(FullContent(chunk.allContent, 1)) >= 2000
  /\ ~Includes(response.error, "Total content too short")

C30_Witness ==
  /\ AllSectionsAccepted
  /\ Done
  /\ \A k \in 1..5 : WordCount(chunk.allContent[k]) = <<200, 1200, 300, 200, 100>>[k]
  /\ WordCount(FullContent(chunk.allContent, 1)) = 2013

====
